---- MODULE Spec2Model ----
(***************************************************************************)
(* Model of python/paddle/fluid/initializer.py: the process-wide global    *)
(* initializer registry (set_global_initializer and its getters),          *)
(* calculate_gain, BilinearInitializer.forward and                         *)
(* NumpyArrayInitializer.forward.                                          *)
(*                                                                         *)
(* Floating-point values are modelled as exact rationals <<n, d>> (d > 0,  *)
(* lowest terms); a gain g > 0 is modelled by its square.                  *)
(***************************************************************************)
EXTENDS Integers, Naturals, Sequences, FiniteSets, TLC

VARIABLES
    _global_weight_initializer_,  \* module global, initializer.py:40
    _global_bias_initializer_,    \* module global, initializer.py:41
    called,                       \* history: set_global_initializer was entered at least once
    last,                         \* the most recent call: operation, arguments, outcome
    block_vars,                   \* variables created in the block by block.create_var
    block_ops,                    \* ops of the block, in append order
    var,                          \* the target variable of the most recent forward call
    dygraph_mode,                 \* framework.in_dygraph_mode()
    k_shape,                      \* kernel computation: var.shape
    k_state,                      \* kernel computation: "input", "done" or "error"
    weight,                       \* kernel computation: the flat weight buffer
    grad                          \* gradient check: operator, order, inputs, outcome

regvars == <<_global_weight_initializer_, _global_bias_initializer_, called>>
blockvars == <<block_vars, block_ops, var, dygraph_mode>>
kernelvars == <<k_shape, k_state, weight>>
gradvars == <<grad>>

None == "None"

(***************************************************************************)
(* Exact rational arithmetic standing for Python/numpy float arithmetic.   *)
(***************************************************************************)
RECURSIVE GCD(_, _)
GCD(a, b) == IF b = 0 THEN a ELSE GCD(b, a % b)

IAbs(n) == IF n < 0 THEN -n ELSE n

RatNorm(n, d) ==
    LET s == IF d < 0 THEN -1 ELSE 1
        g == GCD(IAbs(n), IAbs(d))
    IN  <<(s * n) \div g, (s * d) \div g>>

R(n) == <<n, 1>>
RatAdd(a, b) == RatNorm(a[1] * b[2] + b[1] * a[2], a[2] * b[2])
RatSub(a, b) == RatNorm(a[1] * b[2] - b[1] * a[2], a[2] * b[2])
RatMul(a, b) == RatNorm(a[1] * b[1], a[2] * b[2])
RatDiv(a, b) == RatNorm(a[1] * b[2], a[2] * b[1])
RatAbs(a) == <<IAbs(a[1]), a[2]>>
RatLeq(a, b) == a[1] * b[2] <= b[1] * a[2]
RatLt(a, b) == a[1] * b[2] < b[1] * a[2]
\* math.floor / np.ceil (\div rounds toward minus infinity, the denominator is positive)
RatFloor(a) == a[1] \div a[2]
RatCeil(a) == -((-a[1]) \div a[2])
\* Python's float a % b for b > 0: a - b * floor(a / b)
RatMod(a, b) == RatSub(a, RatMul(b, R(RatFloor(RatDiv(a, b)))))

(* Objects a caller can pass as weight_init / bias_init: None, two         *)
(* Initializer instances and one object that is neither.                   *)
Initializers == {"Uniform", "Constant"}
NotInitializer == "str"
ArgValues == {None} \cup Initializers \cup {NotInitializer}

(* isinstance(x, (Initializer, type(None))) *)
IsInitializerOrNone(x) == x = None \/ x \in Initializers

(* data_feeder.check_type: TRUE when it returns, FALSE when it raises *)
check_type(input) == IsInitializerOrNone(input)

NoCall == [op |-> "none"]
NoGradCheck == [state |-> "idle"]

(***************************************************************************)
(* set_global_initializer and the getters                                  *)
(***************************************************************************)
\* mutant: a None bias_init keeps the bias slot instead of clearing it
SetGlobalInitializerKeepsBias(weight_init, bias_init) ==
    /\ called' = TRUE
    /\ UNCHANGED <<blockvars, kernelvars, gradvars>>
    /\ IF ~check_type(weight_init)
       THEN /\ UNCHANGED <<_global_weight_initializer_, _global_bias_initializer_>>
            /\ last' = [op |-> "set_global_initializer", weight_init |-> weight_init,
                        bias_init |-> bias_init, error |-> "InvalidArgument"]
       ELSE /\ _global_weight_initializer_' = weight_init
            /\ IF ~check_type(bias_init)
               THEN /\ UNCHANGED _global_bias_initializer_
                    /\ last' = [op |-> "set_global_initializer", weight_init |-> weight_init,
                                bias_init |-> bias_init, error |-> "InvalidArgument"]
               ELSE /\ _global_bias_initializer_' =
                         IF bias_init = None THEN _global_bias_initializer_ ELSE bias_init
                    /\ last' = [op |-> "set_global_initializer", weight_init |-> weight_init,
                                bias_init |-> bias_init, error |-> "none"]

\* mutant: bias_init is stored without its check_type call
SetGlobalInitializerNoBiasCheck(weight_init, bias_init) ==
    /\ called' = TRUE
    /\ UNCHANGED <<blockvars, kernelvars, gradvars>>
    /\ IF ~check_type(weight_init)
       THEN /\ UNCHANGED <<_global_weight_initializer_, _global_bias_initializer_>>
            /\ last' = [op |-> "set_global_initializer", weight_init |-> weight_init,
                        bias_init |-> bias_init, error |-> "InvalidArgument"]
       ELSE /\ _global_weight_initializer_' = weight_init
            /\ _global_bias_initializer_' = bias_init
            /\ last' = [op |-> "set_global_initializer", weight_init |-> weight_init,
                        bias_init |-> bias_init, error |-> "none"]

SetGlobalInitializer(weight_init, bias_init) ==
    /\ called' = TRUE
    /\ UNCHANGED <<blockvars, kernelvars, gradvars>>
    /\ IF ~check_type(weight_init)
       THEN /\ UNCHANGED <<_global_weight_initializer_, _global_bias_initializer_>>
            /\ last' = [op |-> "set_global_initializer", weight_init |-> weight_init,
                        bias_init |-> bias_init, error |-> "InvalidArgument"]
       ELSE /\ _global_weight_initializer_' = weight_init
            /\ IF ~check_type(bias_init)
               THEN /\ UNCHANGED _global_bias_initializer_
                    /\ last' = [op |-> "set_global_initializer", weight_init |-> weight_init,
                                bias_init |-> bias_init, error |-> "InvalidArgument"]
               ELSE /\ _global_bias_initializer_' = bias_init
                    /\ last' = [op |-> "set_global_initializer", weight_init |-> weight_init,
                                bias_init |-> bias_init, error |-> "none"]

\* set_global_initializer(weight_init): bias_init takes its default, None
SetGlobalInitializerDefaultBias(weight_init) == SetGlobalInitializer(weight_init, None)

_global_weight_initializer == _global_weight_initializer_
_global_bias_initializer == _global_bias_initializer_

(***************************************************************************)
(* Variables, dtypes, the block                                            *)
(***************************************************************************)
VarType == {"FP16", "BF16", "FP32", "FP64", "INT32", "INT64"}

\* an op reference is the op's position in block_ops; NoOp is Python's None
NoOp == 0

RECURSIVE Prod(_)
Prod(shape) == IF shape = <<>> THEN 1 ELSE Head(shape) * Prod(Tail(shape))

\* unique_name.generate(key): key plus the count of names generated from it
unique_name(key) ==
    <<key, Cardinality({k \in 1..Len(block_vars) : block_vars[k].name[1] = key})>>

TargetName == "w"

NewVariable(shape, dtype) ==
    [name |-> TargetName, shape |-> shape, dtype |-> dtype, op |-> NoOp,
     tensor |-> "uninitialized"]

(***************************************************************************)
(* BilinearInitializer.forward                                             *)
(***************************************************************************)
BilinearSizeLimit == 1048576

\* mutant: FP64 is not promoted
BilinearPromotedNoFP64 == {"FP16", "BF16"}

BilinearPromoted == {"FP16", "BF16", "FP64"}

\* the dtype the values are materialized in
BilinearOutDtype(dtype) == IF dtype \in BilinearPromoted THEN "FP32" ELSE dtype

\* mutant: only the rank is checked
BilinearShapeOkRankOnly(shape) == Len(shape) = 4

\* shape = var.shape; shape[3], shape[4] are Python's shape[2], shape[3]
BilinearShapeOk(shape) ==
    IF Len(shape) # 4 THEN FALSE
    ELSE IF shape[3] # shape[4] THEN FALSE
    ELSE TRUE

BilinearDtypeOk(out_dtype) == out_dtype = "FP32"

\* mutant: the limit itself is rejected
BilinearTooBigInclusive(shape) == Prod(shape) >= BilinearSizeLimit

BilinearTooBig(shape) == Prod(shape) > BilinearSizeLimit

\* f = np.ceil(size / 2.0)
BilinearFactor(size) == R(RatCeil(RatDiv(R(size), R(2))))

\* mutant: the parity term f % 2 is dropped
BilinearCenterNoParity(f) == RatDiv(RatSub(RatMul(R(2), f), R(1)), RatMul(R(2), f))

\* c = (2 * f - 1 - f % 2) / (2.0 * f)
BilinearCenter(f) ==
    RatDiv(RatSub(RatSub(RatMul(R(2), f), R(1)), RatMod(f, R(2))), RatMul(R(2), f))

\* mutant: y = i / size, without the wrap % size
BilinearWeightAtNoWrap(size, i) ==
    LET f == BilinearFactor(size)
        c == BilinearCenter(f)
        x == R(i % size)
        y == RatDiv(R(i), R(size))
    IN  RatMul(RatSub(R(1), RatAbs(RatSub(RatDiv(x, f), c))),
               RatSub(R(1), RatAbs(RatSub(RatDiv(y, f), c))))

\* weight[i] of the loop body, for size = shape[3] (Python) and linear index i;
\* i / size is Python 3's true division, so y is a fraction
BilinearWeightAt(size, i) ==
    LET f == BilinearFactor(size)
        c == BilinearCenter(f)
        x == R(i % size)
        y == RatMod(RatDiv(R(i), R(size)), R(size))
    IN  RatMul(RatSub(R(1), RatAbs(RatSub(RatDiv(x, f), c))),
               RatSub(R(1), RatAbs(RatSub(RatDiv(y, f), c))))

\* the flat buffer, indexed 0 .. prod(shape) - 1
BilinearWeight(shape) ==
    [i \in 0..(Prod(shape) - 1) |-> BilinearWeightAt(shape[4], i)]

\* mutant: the cast op is appended before the assign_value op
AppendedOpsCastFirst(assign, cast, promoted) ==
    IF promoted THEN <<cast, assign>> ELSE <<assign>>

\* the ops a successful graph-mode forward appends, in order: assign_value,
\* then cast when the target dtype was promoted
AppendedOps(assign, cast, promoted) ==
    IF promoted THEN <<assign, cast>> ELSE <<assign>>

BilinearForward(shape, dtype) ==
    LET target == NewVariable(shape, dtype)
        promoted == dtype \in BilinearPromoted
        out_dtype == BilinearOutDtype(dtype)
        tmp == [name |-> unique_name("bilinear_init." \o TargetName \o ".tmp"),
                shape |-> shape, dtype |-> out_dtype]
        out_var == IF promoted THEN tmp.name ELSE <<TargetName>>
        assign == [type |-> "assign_value", out |-> out_var, dtype |-> out_dtype,
                   shape |-> shape, value_name |-> "fp32_values"]
        cast == [type |-> "cast", in |-> out_var, out |-> <<TargetName>>,
                 in_dtype |-> out_dtype, out_dtype |-> dtype]
        Result(error, computed, ret) ==
            [op |-> "BilinearInitializer.forward", shape |-> shape, dtype |-> dtype,
             error |-> error, weight_computed |-> computed, ret |-> ret]
    IN
    /\ UNCHANGED <<regvars, kernelvars, gradvars, dygraph_mode>>
    /\ IF ~BilinearShapeOk(shape)
       THEN /\ last' = Result("InvalidShape", FALSE, NoOp)
            /\ var' = target
            /\ UNCHANGED <<block_vars, block_ops>>
       ELSE /\ block_vars' = IF promoted THEN Append(block_vars, tmp) ELSE block_vars
            /\ IF ~BilinearDtypeOk(out_dtype)
               THEN /\ last' = Result("UnsupportedDtype", TRUE, NoOp)
                    /\ var' = target
                    /\ UNCHANGED block_ops
               ELSE IF BilinearTooBig(shape)
               THEN /\ last' = Result("SizeLimit", TRUE, NoOp)
                    /\ var' = target
                    /\ UNCHANGED block_ops
               ELSE IF dygraph_mode
               THEN /\ last' = Result("none", TRUE, NoOp)
                    /\ var' = [target EXCEPT !.tensor = IF promoted THEN "cast" ELSE "assigned"]
                    /\ UNCHANGED block_ops
               ELSE /\ block_ops' = block_ops \o AppendedOps(assign, cast, promoted)
                    /\ var' = [target EXCEPT !.op = Len(block_ops) + 1]
                    /\ last' = Result("none", TRUE, Len(block_ops) + 1)

\* the kernel computation alone: the shape check and the weight loop
BilinearKernel ==
    /\ k_state = "input"
    /\ UNCHANGED <<regvars, blockvars, gradvars, last, k_shape>>
    /\ IF ~BilinearShapeOk(k_shape)
       THEN /\ k_state' = "error"
            /\ UNCHANGED weight
       ELSE /\ k_state' = "done"
            /\ weight' = BilinearWeight(k_shape)

(***************************************************************************)
(* NumpyArrayInitializer.forward                                           *)
(* self._value is modelled by its element count n, its shape being <<n>>,  *)
(* and the target variable has the array's shape.                          *)
(***************************************************************************)
NumpySizeLimit == 1073741824

\* mutant: FP64 is promoted as in BilinearInitializer
NumpyPromotedWithFP64 == {"FP16", "BF16", "FP64"}

NumpyPromoted == {"FP16", "BF16"}

NumpyOutDtype(dtype) == IF dtype \in NumpyPromoted THEN "FP32" ELSE dtype

\* the name of the values attribute, None when the dtype is unsupported
NumpyValueName(out_dtype) ==
    IF out_dtype = "FP32" THEN "fp32_values"
    ELSE IF out_dtype = "INT32" THEN "int32_values"
    ELSE None

NumpyTooBig(size) == size > NumpySizeLimit

NumpyArrayForward(size, dtype) ==
    LET shape == <<size>>
        target == NewVariable(shape, dtype)
        promoted == dtype \in NumpyPromoted
        out_dtype == NumpyOutDtype(dtype)
        tmp == [name |-> unique_name("numpy_array_init." \o TargetName \o ".tmp"),
                shape |-> shape, dtype |-> out_dtype]
        out_var == IF promoted THEN tmp.name ELSE <<TargetName>>
        assign == [type |-> "assign_value", out |-> out_var, dtype |-> out_dtype,
                   shape |-> shape, value_name |-> NumpyValueName(out_dtype)]
        cast == [type |-> "cast", in |-> out_var, out |-> <<TargetName>>,
                 in_dtype |-> out_dtype, out_dtype |-> dtype]
        Result(error, ret) ==
            [op |-> "NumpyArrayInitializer.forward", size |-> size, dtype |-> dtype,
             out_dtype |-> out_dtype, error |-> error, ret |-> ret]
    IN
    /\ UNCHANGED <<regvars, kernelvars, gradvars, dygraph_mode>>
    /\ block_vars' = IF promoted THEN Append(block_vars, tmp) ELSE block_vars
    /\ IF NumpyValueName(out_dtype) = None
       THEN /\ last' = Result("UnsupportedDtype", NoOp)
            /\ var' = target
            /\ UNCHANGED block_ops
       ELSE IF NumpyTooBig(size)
       THEN /\ last' = Result("SizeLimit", NoOp)
            /\ var' = target
            /\ UNCHANGED block_ops
       ELSE IF dygraph_mode
       THEN /\ last' = Result("none", NoOp)
            /\ var' = [target EXCEPT !.tensor = IF promoted THEN "cast" ELSE "assigned"]
            /\ UNCHANGED block_ops
       ELSE /\ block_ops' = block_ops \o AppendedOps(assign, cast, promoted)
            /\ var' = [target EXCEPT !.op = Len(block_ops) + 1]
            /\ last' = Result("none", Len(block_ops) + 1)

(***************************************************************************)
(* calculate_gain                                                          *)
(* A float is [n, d, e]: (n / d) * 10^e, with n / d a rational in lowest   *)
(* terms; a gain g > 0 is given by g * g in the same form.                 *)
(***************************************************************************)
Float(n, d, e) == [n |-> RatNorm(n, d)[1], d |-> RatNorm(n, d)[2], e |-> e]

\* an argument for param: None, a bool, or a number with its value
NoParam == [kind |-> "None", value |-> Float(0, 1, 0)]
BoolParam(b) == [kind |-> "bool", value |-> Float(IF b THEN 1 ELSE 0, 1, 0)]
NumberParam(n, d, e) == [kind |-> "number", value |-> Float(n, d, e)]

\* sys.float_info.max_10_exp: 10^308 is a float, 10^309 is not
DBL_MAX_10_EXP == 308

\* param ** 2 exceeds the largest float (|n / d| = 1 for every nonzero e modelled)
SquareOverflows(p) == p.n # 0 /\ 2 * p.e > DBL_MAX_10_EXP

\* math.sqrt(2.0 / (1 + param**2)), squared; 1 + param**2 rounds to param**2
\* once param**2 exceeds 2^53
LeakyReluGain(p) ==
    IF p.e = 0 THEN Float(2 * p.d * p.d, p.d * p.d + p.n * p.n, 0)
    ELSE Float(2 * p.d * p.d, p.n * p.n, -2 * p.e)

\* the keys of recommended_gain, in the order of the dict literal
GainNames == {"sigmoid", "linear", "conv1d", "conv2d", "conv3d", "conv1d_transpose",
              "conv2d_transpose", "conv3d_transpose", "tanh", "relu", "leaky_relu",
              "selu"}

recommended_gain(param) ==
    [name \in GainNames |->
        CASE name = "tanh" -> Float(25, 9, 0)
          [] name = "relu" -> Float(2, 1, 0)
          [] name = "leaky_relu" -> LeakyReluGain(param)
          [] name = "selu" -> Float(9, 16, 0)
          [] OTHER -> Float(1, 1, 0)]

NoGain == Float(0, 1, 0)

\* param is None, a bool or a number, as documented; the result is
\* [error, ret] with error "none", "OverflowError" or "UnsupportedNonlinearity"
calculate_gain(nonlinearity, param) ==
    LET p == IF param.kind = "None" THEN Float(1, 100, 0) ELSE param.value
    IN  IF SquareOverflows(p)
        THEN [error |-> "OverflowError", ret |-> NoGain]
        ELSE IF nonlinearity \in GainNames
        THEN [error |-> "none", ret |-> recommended_gain(p)[nonlinearity]]
        ELSE [error |-> "UnsupportedNonlinearity", ret |-> NoGain]

CalculateGain(nonlinearity, param) ==
    /\ UNCHANGED <<regvars, blockvars, kernelvars, gradvars>>
    /\ LET result == calculate_gain(nonlinearity, param)
       IN  last' = [op |-> "calculate_gain", nonlinearity |-> nonlinearity,
                    param |-> param, error |-> result.error, ret |-> result.ret]

(***************************************************************************)
(* Inputs and bounds                                                       *)
(***************************************************************************)
MaxBlockOps == 2
MaxBlockVars == 1

\* target shapes of BilinearInitializer.forward: valid small ones, unequal
\* spatial dimensions, rank 3, and shapes at and above the size limit
ForwardShapes ==
    {<<1, 1, 2, 2>>, <<1, 1, 3, 4>>, <<2, 2, 2>>,
     <<1024, 1024, 1, 1>>, <<1024, 1025, 1, 1>>}

\* element counts of the array of NumpyArrayInitializer: small, at the limit, above it
ArraySizes == {2, NumpySizeLimit, NumpySizeLimit + 1}

NonlinearityInputs == GainNames \cup {"unknown"}

ParamInputs ==
    {NoParam, BoolParam(TRUE), NumberParam(0, 1, 0), NumberParam(1, 1, 0),
     NumberParam(2, 1, 0), NumberParam(-1, 2, 0), NumberParam(1, 1, 154),
     NumberParam(1, 1, 155), NumberParam(-1, 1, 200)}

MaxBatch == 2
MaxChannels == 2
MaxSize == 5

KernelShapes ==
    {<<b, c, h, w>> : b \in 1..MaxBatch, c \in 1..MaxChannels, h \in 1..MaxSize,
                      w \in 1..MaxSize}
    \cup {<<c, h, w>> : c \in 1..MaxChannels, h \in 1..MaxSize, w \in 1..MaxSize}

(***************************************************************************)
(* Numeric gradient check of the elementwise operators                     *)
(* (tests/unittests/test_elementwise_nn_grad.py). The operators are        *)
(* elementwise, so one element (x, y) of the input tensors is modelled.    *)
(***************************************************************************)
\* eps = 0.005
GradEps == <<1, 200>>

\* the tolerance of the comparison, 1e-2
GradTolerance == <<1, 100>>

GradOperators == {"multiply", "add"}

\* mutant: the operator under test is always built with paddle.add
ElementwiseOutAlwaysAdd(op, x, y) == RatAdd(x, y)

\* out = paddle.multiply(x, y) / out = paddle.add(x, y)
ElementwiseOut(op, x, y) == IF op = "multiply" THEN RatMul(x, y) ELSE RatAdd(x, y)

\* The analytic gradient the autodiff engine gives for the operator checked at
\* `order`: row o, column i is d(output o) / d(input i), inputs being (x, y).
AnalyticJacobian(op, order, x, y) ==
    IF op = "multiply"
    THEN CASE order = 1 -> <<(<<y, x>>)>>
           [] order = 2 -> <<(<<R(0), R(1)>>), (<<R(1), R(0)>>)>>
           [] OTHER -> <<(<<R(0), R(0)>>), (<<R(0), R(0)>>)>>
    ELSE CASE order = 1 -> <<(<<R(1), R(1)>>)>>
           [] OTHER -> <<(<<R(0), R(0)>>), (<<R(0), R(0)>>)>>

\* The operator checked at `order`: the operator itself at order 1; at order
\* k + 1 the gradient of the order-k operator with respect to (x, y), for an
\* upstream seed of ones.
RECURSIVE CheckedOperator(_, _, _, _)
CheckedOperator(op, order, x, y) ==
    IF order = 1 THEN <<ElementwiseOut(op, x, y)>>
    ELSE LET J == AnalyticJacobian(op, order - 1, x, y)
             RECURSIVE Sum(_, _)
             Sum(o, i) == IF o = 0 THEN R(0) ELSE RatAdd(J[o][i], Sum(o - 1, i))
         IN  [i \in 1..2 |-> Sum(Len(J), i)]

\* central difference (f(x + eps) - f(x - eps)) / (2 * eps), input by input
NumericJacobian(op, order, x, y) ==
    LET plus(i) == IF i = 1 THEN CheckedOperator(op, order, RatAdd(x, GradEps), y)
                   ELSE CheckedOperator(op, order, x, RatAdd(y, GradEps))
        minus(i) == IF i = 1 THEN CheckedOperator(op, order, RatSub(x, GradEps), y)
                    ELSE CheckedOperator(op, order, x, RatSub(y, GradEps))
    IN  [o \in 1..Len(CheckedOperator(op, order, x, y)) |->
            [i \in 1..2 |->
                RatDiv(RatSub(plus(i)[o], minus(i)[o]), RatMul(R(2), GradEps))]]

\* the elementwise comparison of the numeric and the analytic gradient
WithinTolerance(numeric, analytic) ==
    \A o \in 1..Len(numeric) : \A i \in 1..2 :
        RatLeq(RatAbs(RatSub(numeric[o][i], analytic[o][i])), GradTolerance)

GradCheck ==
    /\ grad.state = "input"
    /\ UNCHANGED <<regvars, blockvars, kernelvars, last>>
    /\ LET numeric == NumericJacobian(grad.op, grad.order, grad.x, grad.y)
           analytic == AnalyticJacobian(grad.op, grad.order, grad.x, grad.y)
       IN  grad' = [grad EXCEPT !.state = "checked", !.numeric = numeric,
                                !.analytic = analytic,
                                !.passed = WithinTolerance(numeric, analytic)]

\* inputs k / GridSteps in [-1, 1]
GridSteps == 3

GradInputs == {RatNorm(k, GridSteps) : k \in (-GridSteps)..GridSteps}

vars == <<_global_weight_initializer_, _global_bias_initializer_, called, last,
          block_vars, block_ops, var, dygraph_mode, k_shape, k_state, weight, grad>>

Init ==
    /\ _global_weight_initializer_ = None
    /\ _global_bias_initializer_ = None
    /\ called = FALSE
    /\ last = NoCall
    /\ block_vars = <<>>
    /\ block_ops = <<>>
    /\ var = NewVariable(<<>>, "FP32")
    /\ dygraph_mode \in BOOLEAN
    /\ k_shape = <<>>
    /\ k_state = "idle"
    /\ weight = <<>>
    /\ grad = NoGradCheck

SetGlobalInitializerCall ==
    \E w \in ArgValues, b \in ArgValues : SetGlobalInitializer(w, b)

SetGlobalInitializerDefaultBiasCall ==
    \E w \in ArgValues : SetGlobalInitializerDefaultBias(w)

BilinearForwardCall ==
    \E shape \in ForwardShapes, dtype \in VarType :
        /\ BilinearForward(shape, dtype)
        /\ Len(block_ops') <= MaxBlockOps
        /\ Len(block_vars') <= MaxBlockVars

NumpyArrayForwardCall ==
    \E size \in ArraySizes, dtype \in VarType :
        /\ NumpyArrayForward(size, dtype)
        /\ Len(block_ops') <= MaxBlockOps
        /\ Len(block_vars') <= MaxBlockVars

CalculateGainCall ==
    \E nonlinearity \in NonlinearityInputs, param \in ParamInputs :
        CalculateGain(nonlinearity, param)

(* The registry and calculate_gain: module-level functions over the globals *)
NextRegistry ==
    \/ SetGlobalInitializerCall
    \/ SetGlobalInitializerDefaultBiasCall
    \/ CalculateGainCall

SpecRegistry == Init /\ [][NextRegistry]_vars

(* The two initializers applied to target variables of one block *)
NextForward ==
    \/ BilinearForwardCall
    \/ NumpyArrayForwardCall

SpecForward == Init /\ [][NextForward]_vars

(* The kernel computation on its own, over every small target shape *)
InitKernel ==
    /\ _global_weight_initializer_ = None
    /\ _global_bias_initializer_ = None
    /\ called = FALSE
    /\ last = NoCall
    /\ block_vars = <<>>
    /\ block_ops = <<>>
    /\ var = NewVariable(<<>>, "FP32")
    /\ dygraph_mode \in BOOLEAN
    /\ k_shape \in KernelShapes
    /\ k_state = "input"
    /\ weight = <<>>
    /\ grad = NoGradCheck

NextKernel == BilinearKernel

SpecKernel == InitKernel /\ [][NextKernel]_vars

(* The gradient checks of the elementwise operators, orders 1 to 3 *)
InitGrad ==
    /\ _global_weight_initializer_ = None
    /\ _global_bias_initializer_ = None
    /\ called = FALSE
    /\ last = NoCall
    /\ block_vars = <<>>
    /\ block_ops = <<>>
    /\ var = NewVariable(<<>>, "FP32")
    /\ dygraph_mode \in BOOLEAN
    /\ k_shape = <<>>
    /\ k_state = "idle"
    /\ weight = <<>>
    /\ grad \in [state : {"input"}, op : GradOperators, order : 1..3,
                 x : GradInputs, y : GradInputs, numeric : {<<>>},
                 analytic : {<<>>}, passed : {FALSE}]

NextGrad == GradCheck

SpecGrad == InitGrad /\ [][NextGrad]_vars

(***************************************************************************)
(* Claims                                                                  *)
(***************************************************************************)
IsSetCall == last.op = "set_global_initializer"
IsBilinearCall == last.op = "BilinearInitializer.forward"
IsNumpyCall == last.op = "NumpyArrayInitializer.forward"
IsGainCall == last.op = "calculate_gain"

C2_InvalidArgument ==
    IsSetCall =>
        (last.error = "InvalidArgument"
            <=> \/ last.weight_init \notin ({None} \cup Initializers)
                \/ last.bias_init \notin ({None} \cup Initializers))

C2_Witness ==
    /\ IsSetCall
    /\ last.weight_init = "Uniform"
    /\ last.bias_init = NotInitializer
    /\ last.error = "InvalidArgument"

\* C3: a BilinearInitializer.forward call on a target whose rank is not 4 or
\* whose last two dimensions differ raises the invalid-shape error, before
\* the weight is computed, and creates no variable and no op.
C3_InvalidShapeFirst ==
    [][(/\ last'.op = "BilinearInitializer.forward"
        /\ \/ Len(last'.shape) # 4
           \/ last'.shape[3] # last'.shape[4])
       => /\ last'.error = "InvalidShape"
          /\ ~last'.weight_computed
          /\ block_vars' = block_vars
          /\ block_ops' = block_ops
          /\ var'.op = NoOp
          /\ var'.tensor = "uninitialized"]_vars

C3_Witness ==
    /\ IsBilinearCall
    /\ last.shape = <<1, 1, 3, 4>>
    /\ last.dtype = "FP16"
    /\ last.error = "InvalidShape"
    /\ block_vars = <<>>

AcceptedByBilinear == {"FP32", "FP16", "BF16", "FP64"}

\* C4 as stated: for every rank-4 shape with equal spatial dimensions and
\* every target dtype, the size-limit error is raised when
\* prod(shape) > 1,048,576 and is not raised when prod(shape) <= 1,048,576.
C4_SizeLimitEveryDtype ==
    (IsBilinearCall /\ Len(last.shape) = 4 /\ last.shape[3] = last.shape[4]) =>
        (last.error = "SizeLimit" <=> Prod(last.shape) > 1048576)

\* C4 amended: for every rank-4 shape with equal spatial dimensions, the
\* size-limit error is raised exactly when prod(shape) > 1,048,576 and the
\* target dtype is FP32, FP16, BF16 or FP64; for any other target dtype the
\* unsupported-dtype error is raised instead, whatever the size.
C4_SizeLimitAcceptedDtype ==
    (IsBilinearCall /\ Len(last.shape) = 4 /\ last.shape[3] = last.shape[4]) =>
        /\ last.error = "SizeLimit"
              <=> (Prod(last.shape) > 1048576 /\ last.dtype \in AcceptedByBilinear)
        /\ last.dtype \notin AcceptedByBilinear => last.error = "UnsupportedDtype"

C4_Witness ==
    /\ IsBilinearCall
    /\ last.shape = <<1024, 1025, 1, 1>>
    /\ last.dtype = "FP64"
    /\ last.error = "SizeLimit"

\* C5: for a rank-4 shape with equal spatial dimensions,
\* BilinearInitializer.forward raises the unsupported-dtype error exactly
\* when the dtype after promotion (FP16, BF16, FP64 to FP32, any other dtype
\* kept) is not FP32, that is exactly when the target dtype is none of FP32,
\* FP16, BF16, FP64.
C5_UnsupportedDtype ==
    (IsBilinearCall /\ Len(last.shape) = 4 /\ last.shape[3] = last.shape[4]) =>
        LET promoted == IF last.dtype \in {"FP16", "BF16", "FP64"} THEN "FP32"
                        ELSE last.dtype
        IN  /\ last.error = "UnsupportedDtype" <=> promoted # "FP32"
            /\ last.error = "UnsupportedDtype" <=> last.dtype \notin AcceptedByBilinear

C5_Witness ==
    /\ IsBilinearCall
    /\ last.shape = <<1, 1, 2, 2>>
    /\ last.dtype = "FP64"
    /\ last.error = "none"
    /\ ~dygraph_mode
    /\ block_ops[last.ret].dtype = "FP32"

\* C6 as stated: for target shape [1,1,2,2] the computation uses size = 2,
\* f = 1, c = 0.5 and the row-major kernel is [0.25, 0.25, 0.25, 0.25].
C6_KernelQuarters ==
    (k_state = "done" /\ k_shape = <<1, 1, 2, 2>>) =>
        /\ k_shape[4] = 2
        /\ BilinearFactor(k_shape[4]) = R(1)
        /\ BilinearCenter(BilinearFactor(k_shape[4])) = <<1, 2>>
        /\ weight = [i \in 0..3 |-> <<1, 4>>]

\* C6 amended: for target shape [1,1,2,2] the computation uses size = 2,
\* f = 1, c = 0 and the row-major kernel is [1, 0, 0, 0].
C6_KernelCorner ==
    (k_state = "done" /\ k_shape = <<1, 1, 2, 2>>) =>
        /\ k_shape[4] = 2
        /\ BilinearFactor(k_shape[4]) = R(1)
        /\ BilinearCenter(BilinearFactor(k_shape[4])) = R(0)
        /\ weight = [i \in 0..3 |-> IF i = 0 THEN R(1) ELSE R(0)]

C6_Witness ==
    /\ k_state = "done"
    /\ k_shape = <<1, 1, 2, 2>>
    /\ DOMAIN weight = 0..3

\* C7: for every rank-4 shape with equal spatial dimensions every value of
\* the kernel lies in [0, 1], and when the spatial size is odd the center
\* element of each spatial plane equals 1.0.
C7_UnitIntervalCenterOne ==
    k_state = "done" =>
        LET size == k_shape[4]
            center == ((size - 1) \div 2) * size + ((size - 1) \div 2)
        IN  /\ \A i \in DOMAIN weight :
                  RatLeq(R(0), weight[i]) /\ RatLeq(weight[i], R(1))
            /\ size % 2 = 1 =>
                  \A plane \in 0..(k_shape[1] * k_shape[2] - 1) :
                      weight[plane * size * size + center] = R(1)

\* C8: for every linear index i the kernel satisfies
\* weight[i] = weight[i mod (size * size)]: every spatial plane of the
\* filter holds the same values.
C8_SamePlaneEverywhere ==
    k_state = "done" =>
        \A i \in DOMAIN weight :
            weight[i] = weight[i % (k_shape[4] * k_shape[4])]

C8_Witness ==
    /\ k_state = "done"
    /\ k_shape = <<2, 2, 3, 3>>
    /\ DOMAIN weight = 0..35
    /\ weight[31] = weight[4]
    /\ weight[31] # weight[30]

\* C9: NumpyArrayInitializer.forward materializes in FP32 for an FP16 or BF16
\* target and in the target dtype otherwise, and raises the unsupported-dtype
\* error exactly when that dtype is neither FP32 nor INT32, that is exactly
\* when the target dtype is none of FP32, INT32, FP16, BF16.
C9_NumpyDtype ==
    IsNumpyCall =>
        LET expected == IF last.dtype \in {"FP16", "BF16"} THEN "FP32" ELSE last.dtype
        IN  /\ last.out_dtype = expected
            /\ last.error = "UnsupportedDtype" <=> expected \notin {"FP32", "INT32"}
            /\ last.error = "UnsupportedDtype"
                  <=> last.dtype \notin {"FP32", "INT32", "FP16", "BF16"}
            /\ last.ret # NoOp => block_ops[last.ret].dtype = expected

C9_Witness ==
    /\ IsNumpyCall
    /\ last.dtype = "FP64"
    /\ last.size = 2
    /\ last.error = "UnsupportedDtype"

TableConstant(name) ==
    CASE name = "tanh" -> Float(25, 9, 0)
      [] name = "relu" -> Float(2, 1, 0)
      [] name = "selu" -> Float(9, 16, 0)
      [] OTHER -> Float(1, 1, 0)

\* C10: calculate_gain raises the unsupported-nonlinearity error exactly when
\* the name is not one of the twelve table keys; for every key other than
\* leaky_relu it returns the table constant whatever param is; and a call
\* leaves the global initializer registry unchanged.
C10_GainTable ==
    [][last'.op = "calculate_gain" =>
          /\ last'.error = "UnsupportedNonlinearity"
                <=> last'.nonlinearity \notin
                       {"sigmoid", "linear", "conv1d", "conv2d", "conv3d",
                        "conv1d_transpose", "conv2d_transpose", "conv3d_transpose",
                        "tanh", "relu", "leaky_relu", "selu"}
          /\ last'.nonlinearity \in
                {"sigmoid", "linear", "conv1d", "conv2d", "conv3d",
                 "conv1d_transpose", "conv2d_transpose", "conv3d_transpose",
                 "tanh", "relu", "selu"}
                => /\ last'.error = "none"
                   /\ last'.ret = TableConstant(last'.nonlinearity)
          /\ _global_weight_initializer_' = _global_weight_initializer_
          /\ _global_bias_initializer_' = _global_bias_initializer_]_vars

C12_IntegerRowIndex ==
    k_state = "done" =>
        LET size == k_shape[4]
            f == (size + 1) \div 2
            c == RatNorm(2 * f - 1 - (f % 2), 2 * f)
            Factor(n) == RatSub(R(1), RatAbs(RatSub(RatNorm(n, f), c)))
        IN  \A i \in 0..(Prod(k_shape) - 1) :
                weight[i] = RatMul(Factor(i % size), Factor((i \div size) % size))

IsForwardCall == IsBilinearCall \/ IsNumpyCall

\* C13: every successful BilinearInitializer.forward and
\* NumpyArrayInitializer.forward call returns the initialization op, the
\* assign_value op, in graph-building and in immediate-execution mode.
C13_ReturnsInitOp ==
    (IsForwardCall /\ last.error = "none") =>
        /\ last.ret # NoOp
        /\ last.ret \in 1..Len(block_ops)
        /\ block_ops[last.ret].type = "assign_value"

\* C14: a set_global_initializer call that raises the invalid-argument error
\* leaves both registry slots as they were, also when weight_init is valid
\* and only bias_init is invalid.
C14_FailedSetChangesNothing ==
    [][(last'.op = "set_global_initializer" /\ last'.error = "InvalidArgument")
       => /\ _global_weight_initializer_' = _global_weight_initializer_
          /\ _global_bias_initializer_' = _global_bias_initializer_]_vars

\* C15: a forward call that raises (invalid shape, unsupported dtype, size
\* limit) leaves the block and the target variable unchanged: no temporary
\* variable created, no op appended, var.op not set, for every target dtype.
C15_FailedForwardChangesNothing ==
    [][(/\ last'.op \in {"BilinearInitializer.forward", "NumpyArrayInitializer.forward"}
        /\ last'.error # "none")
       => /\ block_vars' = block_vars
          /\ block_ops' = block_ops
          /\ var'.op = NoOp]_vars

\* C16: in graph-building mode a successful forward appends exactly one
\* assign_value op writing the materialization variable and, right after it,
\* exactly one cast op into the target variable if and only if the target
\* dtype was promoted (FP16, BF16, FP64 for BilinearInitializer; FP16, BF16
\* for NumpyArrayInitializer); nothing else is appended, and var.op is the
\* assign_value op.
C16_AssignThenCast ==
    [][(/\ ~dygraph_mode
        /\ last'.op \in {"BilinearInitializer.forward", "NumpyArrayInitializer.forward"}
        /\ last'.error = "none")
       => LET promoted ==
                  IF last'.op = "BilinearInitializer.forward"
                  THEN last'.dtype \in {"FP16", "BF16", "FP64"}
                  ELSE last'.dtype \in {"FP16", "BF16"}
              n == Len(block_ops)
              added == Len(block_ops') - n
          IN  /\ added = IF promoted THEN 2 ELSE 1
              /\ SubSeq(block_ops', 1, n) = block_ops
              /\ block_ops'[n + 1].type = "assign_value"
              /\ block_ops'[n + 1].dtype = IF promoted THEN "FP32" ELSE last'.dtype
              /\ promoted =>
                    /\ block_ops'[n + 1].out = block_vars'[Len(block_vars')].name
                    /\ Len(block_vars') = Len(block_vars) + 1
                    /\ block_ops'[n + 2].type = "cast"
                    /\ block_ops'[n + 2].in = block_ops'[n + 1].out
                    /\ block_ops'[n + 2].out = <<var'.name>>
                    /\ block_ops'[n + 2].out_dtype = last'.dtype
              /\ ~promoted =>
                    /\ block_ops'[n + 1].out = <<var'.name>>
                    /\ block_vars' = block_vars
              /\ var'.op = n + 1
              /\ last'.ret = n + 1]_vars

C16_Witness ==
    /\ ~dygraph_mode
    /\ IsBilinearCall
    /\ last.dtype = "FP64"
    /\ last.error = "none"
    /\ Len(block_ops) = 2
    /\ block_ops[1].type = "assign_value"
    /\ block_ops[2].type = "cast"
    /\ var.op = 1
====
